---- MODULE Spec2Model ----
(***************************************************************************)
(* TypeMotion: the App component (view-state controller) and the Gemini    *)
(* generation client it drives.                                            *)
(*                                                                         *)
(* The React state of App is the model's state; every event handler is one *)
(* action, and an async handler is one action per segment between two      *)
(* awaits.  Each invocation of startProcess is a record in procs holding   *)
(* its position (pc) and the values its closure captured.                  *)
(*                                                                         *)
(* Strings the handlers only pass along are abstracted:                    *)
(*   - text inputs are sequences of characters over {" ", "T"} / {" ","s"} *)
(*     so that trim() is computed, not assumed;                            *)
(*   - a generated image / video is named by the request (slot) that       *)
(*     produced it: imageSrc = p stands for the data URL built from the    *)
(*     payload returned to request p, videoSrc = p for the object URL of   *)
(*     the video fetched by request p;                                     *)
(*   - a caption is [src, len, description]: where it came from (0 = the   *)
(*     model's answer, 1..4 = fallback frase), its length and the product  *)
(*     text a frase interpolates; adCaption keeps of it the request it was *)
(*     generated for and whether it is a fallback.                         *)
(*                                                                         *)
(* Spec is the App component as a whole.  ServiceSpec runs the generation  *)
(* client's functions one await at a time on inputs drawn from bounded     *)
(* sets, together with the form's Suggest button; ProfileSpec is the       *)
(* profile form with the storage behind it and the page being loaded       *)
(* again; LiveSpec adds to Spec the fairness of the awaited calls.          *)
(***************************************************************************)
EXTENDS Integers, Sequences, FiniteSets, TLC

\* ------------------------------------------------------------- bounds
\* Number of startProcess invocations a behaviour may start.
MaxSubmits == 2
\* Number of times in a row the video operation may report done = false.
MaxPolls == 2
\* Number of startProcess invocations a behaviour of LiveSpec may start.
MaxLiveSubmits == 1

\* ---------------------------------------------------------- constants
\* frases.length in generateAdCaption's fallback.
NumFrases == 4
\* sleep(5000) in generateTextVideo's loop.
PollDelayMs == 5000
\* the text generateAdCaption keeps of the model's answer: slice(0, 160), and
\* the least length it accepts.
MaxCaptionLen == 160
MinCaptionLen == 5

NULL == 0
Slots == 1 .. MaxSubmits

IDLE == "IDLE"
GENERATING_IMAGE == "GENERATING_IMAGE"
GENERATING_VIDEO == "GENERATING_VIDEO"
PLAYING == "PLAYING"
ERROR == "ERROR"
AppState == {IDLE, GENERATING_IMAGE, GENERATING_VIDEO, PLAYING, ERROR}

\* Values the user may type into the product-text and style inputs.
TextValues == {<<>>, <<" ">>, <<"T">>}
StyleValues == {<<>>, <<" ", "s">>}
\* utils.getRandomStyle(): one entry of a fixed catalog.
StyleCatalog == {<<"c", "1">>, <<"c", "2">>}

\* Messages carried by an error raised by the provider SDK / network layer;
\* the empty message makes the handler fall back to its generic text.
ProviderMessages == {""}
MsgAnalisando == "Analisando produto..."
MsgCriando == "Criando video com legenda estetica..."
MsgErro == "Erro ao processar."
MsgFalhaImagem == "Falha ao gerar imagem."
MsgFalhaVideo == "Falha ao gerar video."

NoCaption == [req |-> 0, fallback |-> FALSE]

\* A UserProfile is a record of five strings (sequences of characters).
\* userProfile is NoProfile (null) or <<profile>>; the stored item is NoItem
\* (getItem answers null) or the text setItem wrote.
NoProfile == <<>>
NoItem == <<>>

\* the profile the form holds in Spec and ServiceSpec
Profiles ==
    {[name |-> <<"a">>, phone |-> <<"1">>, instagram |-> <<>>, twitter |-> <<>>,
      tiktok |-> <<>>]}

\* What the profile form can be submitted with in ProfileSpec: name and phone
\* are required inputs, the others may be left empty.
FormProfiles ==
    [name : {<<"a">>, <<"\"">>, <<"a", "\\">>},
     phone : {<<"1">>, <<"\\", "\"">>},
     instagram : {<<>>, <<"a", "\"", ",">>},
     twitter : {<<>>, <<"}">>},
     tiktok : {<<>>, <<"\\", "n">>}]

\* .length of each template of frases around ${description} (UTF-16 units).
FraseLen == <<86, 85, 79, 83>>

\* Math.random(), in tenths: k stands for k / 10.
Randoms == 0 .. 9

\* the string generateStyleSuggestion returns from its catch
DefaultStyle == <<"d", "e", "f">>

\* Product texts handed to generateAdCaption: n times the letter T.
DescriptionLens == {1, 74, 82}
Descriptions == {[i \in 1 .. n |-> "T"] : n \in DescriptionLens}

\* What the text model may answer to generateStyleSuggestion: the call
\* throws, response.text is undefined, or it is one of these texts.
StyleResponses ==
    {[kind |-> "throw", text |-> <<>>], [kind |-> "undefined", text |-> <<>>]}
        \cup {[kind |-> "text", text |-> t] : t \in {<<" ">>, <<" ", "s", " ">>}}

\* What the text model's answer may be: the call throws, response.text is
\* undefined, or it is a text whose trimmed length is one of these.
CaptionResponses ==
    {[kind |-> "throw", len |-> 0], [kind |-> "undefined", len |-> 0]}
        \cup {[kind |-> "text", len |-> n] : n \in {0, 4, 5, 200}}

VARIABLES
    state,            \* useState<AppState>
    viewMode,         \* 'gallery' | 'create' | 'auth'
    showKeyDialog,    \* boolean
    userProfile,      \* NoProfile (null) or <<profile>>
    storage,          \* localStorage['typeMotion_profile']: NoItem or a text
    inputText,        \* product text input
    inputStyle,       \* style textarea
    imageSrc,         \* NULL or the request whose image is shown
    videoSrc,         \* NULL or the request whose video is shown
    adCaption,        \* NoCaption ("") or the caption shown, see setAdCaption
    statusMessage,    \* string
    keySelected,      \* host: what window.aistudio.hasSelectedApiKey() answers
    ctaPending,       \* handleMainCta awaiting hasSelectedApiKey
    selectPending,    \* dialog onSelect awaiting openSelectKey
    procs,            \* the startProcess invocations
    event,            \* history: "submit" when the last event was a submit of the form
    isSuggestingStyle,\* boolean
    client            \* ServiceSpec: the call of the generation client being run

vars == <<state, viewMode, showKeyDialog, userProfile, storage, inputText, inputStyle,
          imageSrc, videoSrc, adCaption, statusMessage, keySelected,
          ctaPending, selectPending, procs, event, isSuggestingStyle, client>>

\* what the handlers of Spec never touch
service == <<isSuggestingStyle, client>>

\* no call of the generation client is being run
NoCall == [fn |-> "none", pc |-> "idle"]

\* ------------------------------------------------------- pure helpers
RECURSIVE trimStart(_)
trimStart(s) == IF s /= <<>> /\ Head(s) = " " THEN trimStart(Tail(s)) ELSE s

RECURSIVE trimEnd(_)
trimEnd(s) ==
    IF s /= <<>> /\ s[Len(s)] = " " THEN trimEnd(SubSeq(s, 1, Len(s) - 1)) ELSE s

\* String.prototype.trim
trim(s) == trimEnd(trimStart(s))

\* ---------------------------------------------------- JSON (profile)
\* A JSON text is the sequence of its characters, except that the name of a
\* property is written as one symbol.
KeyChars ==
    [name |-> <<"name">>,
     phone |-> <<"phone">>,
     instagram |-> <<"instagram">>,
     twitter |-> <<"twitter">>,
     tiktok |-> <<"tiktok">>]

\* the order in which saveProfile's object literal lists its properties
ProfileKeys == <<"name", "phone", "instagram", "twitter", "tiktok">>

\* JSON.stringify of a string: quotes around it, a backslash before each
\* quote and backslash in it
RECURSIVE Escape(_)
Escape(str) ==
    IF str = <<>> THEN <<>>
    ELSE (IF Head(str) \in {"\"", "\\"} THEN <<"\\", Head(str)>> ELSE <<Head(str)>>)
             \o Escape(Tail(str))

Quote(str) == <<"\"">> \o Escape(str) \o <<"\"">>

\* JSON.stringify of the properties keys[i..] of object
RECURSIVE Members(_, _, _)
Members(object, keys, i) ==
    IF i > Len(keys) THEN <<>>
    ELSE (IF i > 1 THEN <<",">> ELSE <<>>)
             \o Quote(KeyChars[keys[i]]) \o <<":">> \o Quote(object[keys[i]])
             \o Members(object, keys, i + 1)

\* JSON.stringify(profile)
JSONstringify(profile) == <<"{">> \o Members(profile, ProfileKeys, 1) \o <<"}">>

\* JSON.parse reading a string literal of text from position i, just after
\* its opening quote: the characters read and the position after the closing
\* quote (ok is FALSE on a SyntaxError)
RECURSIVE ReadString(_, _, _)
ReadString(text, i, acc) ==
    IF i > Len(text) THEN [ok |-> FALSE, value |-> acc, next |-> i]
    ELSE IF text[i] = "\"" THEN [ok |-> TRUE, value |-> acc, next |-> i + 1]
    ELSE IF text[i] = "\\"
    THEN IF i + 1 > Len(text) THEN [ok |-> FALSE, value |-> acc, next |-> i]
         ELSE ReadString(text, i + 2, Append(acc, text[i + 1]))
    ELSE ReadString(text, i + 1, Append(acc, text[i]))

\* JSON.parse reading the members of an object from position i on
RECURSIVE ReadMembers(_, _, _)
ReadMembers(text, i, members) ==
    IF i > Len(text) \/ text[i] /= "\"" THEN [ok |-> FALSE, members |-> members]
    ELSE LET key == ReadString(text, i + 1, <<>>)
             colon == key.next
             value == ReadString(text, colon + 2, <<>>)
             all == Append(members, [key |-> key.value, value |-> value.value])
         IN  IF ~key.ok \/ colon + 1 > Len(text) \/ text[colon] /= ":"
                    \/ text[colon + 1] /= "\""
             THEN [ok |-> FALSE, members |-> members]
             ELSE IF ~value.ok \/ value.next > Len(text)
             THEN [ok |-> FALSE, members |-> members]
             ELSE IF text[value.next] = ","
             THEN ReadMembers(text, value.next + 1, all)
             ELSE [ok |-> text[value.next] = "}" /\ value.next = Len(text),
                   members |-> all]

\* JSON.parse of the text of an object whose values are strings
JSONparse(text) ==
    IF text = <<>> \/ Head(text) /= "{" THEN [ok |-> FALSE, members |-> <<>>]
    ELSE ReadMembers(text, 2, <<>>)

\* object[key] of a parsed object: the value of the last member of that
\* name, or undefined
Missing == <<"undefined">>
Get(members, key) ==
    LET at == {i \in DOMAIN members : members[i].key = KeyChars[key]}
    IN  IF at = {} THEN Missing
        ELSE members[CHOOSE i \in at : \A j \in at : j <= i].value

\* the effect run on mount: what userProfile becomes for a stored item saved
\* (null and "" are falsy; a SyntaxError of JSON.parse leaves the state null)
LoadProfile(saved) ==
    IF saved = NoItem THEN NoProfile
    ELSE LET parsed == JSONparse(saved)
         IN  IF ~parsed.ok THEN NoProfile
             ELSE <<[k \in DOMAIN KeyChars |-> Get(parsed.members, k)]>>

\* err.message || "Erro ao processar."
ErrorText(msg) == IF msg = "" THEN MsgErro ELSE msg

\* ------------------------------------------------------ process records
\* the ViewState values of one run of startProcess in which every stage succeeds
ExpectedRun == <<IDLE, GENERATING_IMAGE, GENERATING_VIDEO, PLAYING>>

IsPrefix(s, t) == Len(s) <= Len(t) /\ s = SubSeq(t, 1, Len(s))

\* pc: where the invocation is suspended ("none": not called yet, "returned":
\* the promise has settled); text, style: inputText and inputStyle as the
\* closure captured them, style becoming styleToUse once resolved (kept until
\* the caption call, the last place the model reads it); seen: history, see
\* Step.
FreeProc == [pc |-> "none", text |-> <<>>, style |-> <<>>, seen |-> <<>>]

\* an invocation that has been called and has not returned
Live(r) == r.pc \notin {"none", "returned"}

\* an invocation that is past the key check and still running the chain
InFlight(r) == r.pc \in {"caption", "image", "video"}

Started == {p \in Slots : procs[p].pc /= "none"}

\* ------------------------------------------------------------- render
\* renderAppContent shows the creation form (rather than AuthScreen or the
\* result panel), inside the container that is visible in 'create' mode.
FormRendered ==
    /\ viewMode = "create"
    /\ state \notin {GENERATING_IMAGE, GENERATING_VIDEO, PLAYING}

\* (mutation of SubmitEnabled: the button is disabled on empty text only)
SubmitEnabled_AnyState == trim(inputText) /= <<>>

\* the submit button's disabled attribute, negated
SubmitEnabled == trim(inputText) /= <<>> /\ state = IDLE

\* the result panel's "Criar Novo Material" button
ResetRendered == viewMode = "create" /\ state = PLAYING

Init ==
    /\ state = IDLE
    /\ viewMode = "gallery"
    /\ showKeyDialog = FALSE
    /\ storage \in {NoItem} \cup {JSONstringify(profile) : profile \in Profiles}
    /\ userProfile = LoadProfile(storage)
    /\ inputText = <<>>
    /\ inputStyle = <<>>
    /\ imageSrc = NULL
    /\ videoSrc = NULL
    /\ adCaption = NoCaption
    /\ statusMessage = ""
    /\ keySelected \in BOOLEAN
    /\ ctaPending = FALSE
    /\ selectPending = FALSE
    /\ procs = [p \in Slots |-> FreeProc]
    /\ event = "other"
    /\ isSuggestingStyle = FALSE
    /\ client = NoCall

\* --------------------------------------------------- generation client
\* generateAdCaption after getAI(): the try block and its catch.
\* resp is the model's answer, random the value of Math.random().
Undefined == [src |-> -1, len |-> 0, description |-> <<>>]

\* (mutation of FraseIndex: Math.round in place of Math.floor)
FraseIndex_Round(random, length) ==
    ((2 * random * length + Cardinality(Randoms)) \div (2 * Cardinality(Randoms))) + 1

\* Math.floor(Math.random() * frases.length), counted from 1
FraseIndex(random, length) == ((random * length) \div Cardinality(Randoms)) + 1

generateAdCaption(description, resp, random) ==
    LET \* length after slice(0, 160)
        textoIA == IF resp.len < MaxCaptionLen THEN resp.len ELSE MaxCaptionLen
        failed == resp.kind \in {"throw", "undefined"} \/ textoIA = 0
                      \/ textoIA < MinCaptionLen
        frases == [i \in 1 .. NumFrases |->
                      [src |-> i, len |-> FraseLen[i] + Len(description),
                       description |-> description]]
        index == FraseIndex(random, Len(frases))
    IN  IF failed
        THEN IF index \in DOMAIN frases THEN frases[index] ELSE Undefined
        ELSE [src |-> 0, len |-> textoIA, description |-> <<>>]

\* What the provider reports to one call of generateTextVideo: the answer
\* of generateVideos followed by those of the getVideosOperation calls.  Each
\* is an operation (done, and whether response.generatedVideos[0].video.uri is
\* there) or a thrown error; n operations that are not done are followed by
\* a last report that is done or throws.
NotDone == [kind |-> "op", done |-> FALSE, uri |-> FALSE]
LastReports ==
    {[kind |-> "throw", done |-> FALSE, uri |-> FALSE]}
        \cup {[kind |-> "op", done |-> TRUE, uri |-> u] : u \in BOOLEAN}
VideoReports ==
    {[i \in 1 .. n + 1 |-> IF i <= n THEN NotDone ELSE last] :
        n \in 0 .. MaxPolls, last \in LastReports}

\* the while loop of generateTextVideo and the uri test after it: operation
\* is the report in hand, rest the reports of the calls still to come,
\* polls the number of sleep(5000) + getVideosOperation rounds made so far
RECURSIVE pollLoop(_, _, _)
pollLoop(operation, rest, polls) ==
    IF operation.kind = "throw"
    THEN [result |-> "throw", polls |-> polls]
    ELSE IF ~operation.done
    THEN pollLoop(Head(rest), Tail(rest), polls + 1)
    ELSE [result |-> IF operation.uri THEN "uri" ELSE "nouri", polls |-> polls]

\* generateTextVideo: the url, or the message of the error it rejects with
\* (a provider / network error carries a message of ProviderMessages; the
\* model takes the empty one)
generateTextVideo(reports, fetched) ==
    LET loop == pollLoop(Head(reports), Tail(reports), 0) IN
    IF loop.result = "throw" THEN [result |-> "error", message |-> "", polls |-> loop.polls]
    ELSE IF loop.result = "nouri"
    THEN [result |-> "error", message |-> MsgFalhaVideo, polls |-> loop.polls]
    ELSE IF ~fetched THEN [result |-> "error", message |-> "", polls |-> loop.polls]
    ELSE [result |-> "url", message |-> "", polls |-> loop.polls]

\* the captions generateAdCaption can return for each product text the form
\* can hold
Captions ==
    [description \in TextValues |->
        {generateAdCaption(description, resp, random) :
            resp \in CaptionResponses, random \in Randoms}]

\* setAdCaption(generatedCaption): what adCaption keeps of a caption
setAdCaption(p, c) == [req |-> p, fallback |-> c.src /= 0]

\* the ways one call of generateTextVideo can settle
VideoOutcomes ==
    {[result |-> r.result, message |-> r.message] :
        r \in {generateTextVideo(reports, fetched) :
                  reports \in VideoReports, fetched \in BOOLEAN}}

\* styleToUse = inputStyle.trim() || getRandomStyle()
ResolveStyle(s) == IF trim(s) /= <<>> THEN {trim(s)} ELSE StyleCatalog

\* ---------------------------------------------- steps of startProcess
\* procs after invocation p becomes r and ViewState becomes s
\* (seen, a history field, records the changes of ViewState the invocation
\* observes, up to the first one that leaves ExpectedRun; a returned invocation
\* keeps only its pc)
Step(p, r, s) ==
    [q \in Slots |->
        LET base == IF q = p THEN r ELSE procs[q]
            old  == procs[q].seen
            obs  == IF Live(procs[q]) /\ s /= state /\ IsPrefix(old, ExpectedRun)
                    THEN Append(old, s) ELSE old
        IN  IF ~Live(base) THEN [FreeProc EXCEPT !.pc = base.pc]
            ELSE IF base.pc \in {"image", "video"}
            THEN [base EXCEPT !.seen = obs, !.style = <<>>, !.text = <<>>]
            ELSE [base EXCEPT !.seen = obs]]

Others == <<viewMode, userProfile, storage, inputText, inputStyle, keySelected,
            ctaPending, selectPending>>

\* the form's onSubmit: the user clicks GENERATE or presses Enter in the form.
\* startProcess runs up to its first await.
SubmitEvent ==
    /\ FormRendered
    /\ Cardinality(Started) < MaxSubmits
    /\ event' = "submit" /\ UNCHANGED service
    /\ IF SubmitEnabled /\ trim(inputText) /= <<>>
       THEN procs' = [procs EXCEPT ![Cardinality(Started) + 1] =
                        [FreeProc EXCEPT !.pc = "keyCheck", !.text = inputText,
                                         !.style = inputStyle, !.seen = <<state>>]]
       ELSE UNCHANGED procs
    /\ UNCHANGED <<state, showKeyDialog, imageSrc, videoSrc, adCaption,
                   statusMessage, Others>>

\* startProcess from setState(GENERATING_IMAGE) up to the await of
\* generateAdCaption
StartChain(p) ==
    /\ state' = GENERATING_IMAGE
    /\ videoSrc' = NULL
    /\ imageSrc' = NULL
    /\ adCaption' = NoCaption
    /\ statusMessage' = MsgAnalisando
    /\ \E st \in ResolveStyle(procs[p].style) :
          procs' = Step(p, [procs[p] EXCEPT !.pc = "caption", !.style = st],
                        GENERATING_IMAGE)

\* keySelected is true
BeginSequence(p) == StartChain(p) /\ UNCHANGED showKeyDialog

\* (mutation of OpenDialogAbort: the dialog is opened but the return is missing)
OpenDialogAbort_NoReturn(p) == showKeyDialog' = TRUE /\ StartChain(p)

\* keySelected is falsy: setShowKeyDialog(true); return
OpenDialogAbort(p) ==
    /\ showKeyDialog' = TRUE
    /\ procs' = Step(p, [procs[p] EXCEPT !.pc = "returned"], state)
    /\ UNCHANGED <<state, imageSrc, videoSrc, adCaption, statusMessage>>

\* hasSelectedApiKey() resolves
KeyCheckReturn(p) ==
    /\ procs[p].pc = "keyCheck"
    /\ IF keySelected THEN BeginSequence(p) ELSE OpenDialogAbort(p)
    /\ event' = "other" /\ UNCHANGED service
    /\ UNCHANGED Others

\* (mutation of Fail: the catch block leaves out setState(AppState.ERROR))
Fail_NoErrorState(p, msg) ==
    /\ statusMessage' = ErrorText(msg)
    /\ procs' = Step(p, [procs[p] EXCEPT !.pc = "returned"], state)
    /\ UNCHANGED <<state, imageSrc, videoSrc, adCaption, showKeyDialog>>

\* the catch block of startProcess
Fail(p, msg) ==
    /\ statusMessage' = ErrorText(msg)
    /\ state' = ERROR
    /\ procs' = Step(p, [procs[p] EXCEPT !.pc = "returned"], ERROR)
    /\ UNCHANGED <<imageSrc, videoSrc, adCaption, showKeyDialog>>

\* generateAdCaption settles: getAI() throws before the try block, or the
\* function returns a caption
CaptionReturn(p) ==
    /\ procs[p].pc = "caption"
    /\ \/ \E msg \in ProviderMessages : Fail(p, msg)
       \/ \E shown \in {setAdCaption(p, c) : c \in Captions[procs[p].text]} :
            /\ adCaption' = shown
            /\ procs' = Step(p, [procs[p] EXCEPT !.pc = "image"], state)
            /\ UNCHANGED <<state, imageSrc, videoSrc, statusMessage, showKeyDialog>>
    /\ event' = "other" /\ UNCHANGED service
    /\ UNCHANGED Others

\* generateTextImage settles
ImageReturn(p) ==
    /\ procs[p].pc = "image"
    /\ \/ \E msg \in ProviderMessages : Fail(p, msg)   \* getAI / generateContent throws
       \/ Fail(p, MsgFalhaImagem)                      \* no part with inlineData
       \/ /\ imageSrc' = p
          /\ state' = GENERATING_VIDEO
          /\ statusMessage' = MsgCriando
          /\ procs' = Step(p, [procs[p] EXCEPT !.pc = "video"], GENERATING_VIDEO)
          /\ UNCHANGED <<videoSrc, adCaption, showKeyDialog>>
    /\ event' = "other" /\ UNCHANGED service
    /\ UNCHANGED Others

\* generateTextVideo settles.  The function touches no state of App between
\* its call and its settling, so its awaits (generateVideos, each sleep and
\* getVideosOperation, fetch, blob) are taken in one step, on the reports the
\* provider gives it.
VideoReturn(p) ==
    /\ procs[p].pc = "video"
    /\ \E r \in VideoOutcomes :
          IF r.result = "url"
          THEN /\ videoSrc' = p
               /\ state' = PLAYING
               /\ procs' = Step(p, [procs[p] EXCEPT !.pc = "returned"], PLAYING)
               /\ UNCHANGED <<imageSrc, adCaption, statusMessage, showKeyDialog>>
          ELSE Fail(p, r.message)
    /\ event' = "other" /\ UNCHANGED service
    /\ UNCHANGED Others

\* ------------------------------------------------- the other handlers
Results == <<imageSrc, videoSrc, adCaption, statusMessage>>

\* "Criar Novo Material"
Reset ==
    /\ ResetRendered
    /\ state' = IDLE
    /\ procs' = Step(0, FreeProc, IDLE)
    /\ event' = "other" /\ UNCHANGED service
    /\ UNCHANGED <<showKeyDialog, Results, Others>>

\* onChange of the product-text input
SetInputText(t) ==
    /\ FormRendered
    /\ t /= inputText
    /\ inputText' = t
    /\ event' = "other" /\ UNCHANGED service
    /\ UNCHANGED <<state, viewMode, showKeyDialog, userProfile, storage, inputStyle,
                   Results, keySelected, ctaPending, selectPending, procs>>

\* onChange of the style textarea
SetInputStyle(s) ==
    /\ FormRendered
    /\ s /= inputStyle
    /\ inputStyle' = s
    /\ event' = "other" /\ UNCHANGED service
    /\ UNCHANGED <<state, viewMode, showKeyDialog, userProfile, storage, inputText,
                   Results, keySelected, ctaPending, selectPending, procs>>

Inputs == <<inputText, inputStyle>>

\* handleMainCta up to its await
MainCta ==
    /\ viewMode = "gallery"
    /\ IF userProfile = NoProfile
       THEN viewMode' = "auth" /\ UNCHANGED ctaPending
       ELSE ~ctaPending /\ ctaPending' = TRUE /\ UNCHANGED viewMode
    /\ event' = "other" /\ UNCHANGED service
    /\ UNCHANGED <<state, showKeyDialog, userProfile, storage, Inputs, Results,
                   keySelected, selectPending, procs>>

\* handleMainCta after hasSelectedApiKey() resolves
MainCtaReturn ==
    /\ ctaPending
    /\ ctaPending' = FALSE
    /\ IF ~keySelected
       THEN showKeyDialog' = TRUE /\ UNCHANGED viewMode
       ELSE viewMode' = "create" /\ UNCHANGED showKeyDialog
    /\ event' = "other" /\ UNCHANGED service
    /\ UNCHANGED <<state, userProfile, storage, Inputs, Results, keySelected,
                   selectPending, procs>>

\* (mutation of saveProfile: localStorage.setItem is left out)
saveProfile_NoSetItem(profile) ==
    /\ viewMode = "auth"
    /\ userProfile' = <<profile>>
    /\ viewMode' = "gallery"
    /\ event' = "other" /\ UNCHANGED service
    /\ UNCHANGED <<state, showKeyDialog, storage, Inputs, Results, keySelected,
                   ctaPending, selectPending, procs>>

\* the profile form's onSubmit
saveProfile(profile) ==
    /\ viewMode = "auth"
    /\ userProfile' = <<profile>>
    /\ storage' = JSONstringify(profile)
    /\ viewMode' = "gallery"
    /\ event' = "other" /\ UNCHANGED service
    /\ UNCHANGED <<state, showKeyDialog, Inputs, Results, keySelected, ctaPending,
                   selectPending, procs>>

\* buttons that only navigate: Cancelar (auth), X and the profile chip (form)
Navigate ==
    /\ \/ viewMode = "auth" /\ viewMode' = "gallery"
       \/ FormRendered /\ viewMode' = "gallery"
       \/ FormRendered /\ userProfile /= NoProfile /\ viewMode' = "auth"
    /\ event' = "other" /\ UNCHANGED service
    /\ UNCHANGED <<state, showKeyDialog, userProfile, storage, Inputs, Results,
                   keySelected, ctaPending, selectPending, procs>>

\* ApiKeyDialog onClose
DialogClose ==
    /\ showKeyDialog
    /\ showKeyDialog' = FALSE
    /\ event' = "other" /\ UNCHANGED service
    /\ UNCHANGED <<state, viewMode, userProfile, storage, Inputs, Results,
                   keySelected, ctaPending, selectPending, procs>>

\* ApiKeyDialog onSelect up to its await
DialogSelect ==
    /\ showKeyDialog
    /\ ~selectPending
    /\ showKeyDialog' = FALSE
    /\ selectPending' = TRUE
    /\ event' = "other" /\ UNCHANGED service
    /\ UNCHANGED <<state, viewMode, userProfile, storage, Inputs, Results,
                   keySelected, ctaPending, procs>>

\* openSelectKey() resolves: the user picked a key in the host's dialog, or
\* dismissed it
DialogSelectReturn ==
    /\ selectPending
    /\ selectPending' = FALSE
    /\ keySelected' \in {keySelected, TRUE}
    /\ viewMode' = "create"
    /\ event' = "other" /\ UNCHANGED service
    /\ UNCHANGED <<state, showKeyDialog, userProfile, storage, Inputs, Results,
                   ctaPending, procs>>

Next ==
    \/ SubmitEvent
    \/ \E p \in Slots : KeyCheckReturn(p)
    \/ \E p \in Slots : CaptionReturn(p)
    \/ \E p \in Slots : ImageReturn(p)
    \/ \E p \in Slots : VideoReturn(p)
    \/ Reset
    \/ \E t \in TextValues : SetInputText(t)
    \/ \E s \in StyleValues : SetInputStyle(s)
    \/ MainCta
    \/ MainCtaReturn
    \/ \E profile \in Profiles : saveProfile(profile)
    \/ Navigate
    \/ DialogClose
    \/ DialogSelect
    \/ DialogSelectReturn

Spec == Init /\ [][Next]_vars

\* Every awaited call of the generation client settles: it returns or
\* raises, and the video operation ends up reported done (or a poll raises).
Fairness ==
    \A p \in Slots :
        /\ WF_vars(CaptionReturn(p))
        /\ WF_vars(ImageReturn(p))
        /\ WF_vars(VideoReturn(p))

\* the form's onSubmit in LiveSpec
LiveSubmitEvent == Cardinality(Started) < MaxLiveSubmits /\ SubmitEvent

LiveNext ==
    \/ LiveSubmitEvent
    \/ \E p \in Slots : KeyCheckReturn(p)
    \/ \E p \in Slots : CaptionReturn(p)
    \/ \E p \in Slots : ImageReturn(p)
    \/ \E p \in Slots : VideoReturn(p)
    \/ Reset
    \/ \E t \in TextValues : SetInputText(t)
    \/ \E s \in StyleValues : SetInputStyle(s)
    \/ MainCta
    \/ MainCtaReturn
    \/ \E profile \in Profiles : saveProfile(profile)
    \/ Navigate
    \/ DialogClose
    \/ DialogSelect
    \/ DialogSelectReturn

\* Spec with the fairness of the awaited calls, over behaviours that start at
\* most MaxLiveSubmits invocations
LiveSpec == Init /\ [][LiveNext]_vars /\ Fairness

\* =====================================================================
\* ServiceSpec: the functions of the generation client, one await at a time
\* =====================================================================
App == <<state, viewMode, showKeyDialog, userProfile, storage, imageSrc, videoSrc,
         adCaption, statusMessage, keySelected, ctaPending, selectPending, procs,
         event>>

\* entries of the log of a call of generateTextVideo
Slept(ms) == [ev |-> "sleep", ms |-> ms]
Checked == [ev |-> "getVideosOperation", ms |-> 0]

\* generateTextVideo is called: getAI() throws, or generateVideos is awaited.
\* script is what the provider will report (see VideoReports), fetched whether
\* fetch and blob will succeed.
VideoCall(script, fetched) ==
    /\ client.fn = "none"
    /\ \/ client' = [fn |-> "video", pc |-> "rejected", script |-> script,
                     fetched |-> fetched, operation |-> NotDone, rest |-> script,
                     log |-> <<>>, message |-> ""]
       \/ client' = [fn |-> "video", pc |-> "generateVideos", script |-> script,
                     fetched |-> fetched, operation |-> NotDone, rest |-> script,
                     log |-> <<>>, message |-> ""]
    /\ UNCHANGED <<App, inputText, inputStyle, isSuggestingStyle>>

\* (mutation of AfterReport: the loop gives up after one poll)
AfterReport_Capped(c, report) ==
    IF report.kind = "throw"
    THEN [c EXCEPT !.pc = "rejected", !.rest = Tail(c.rest)]
    ELSE IF ~report.done /\ c.log = <<>>
    THEN [c EXCEPT !.pc = "sleep", !.operation = report, !.rest = Tail(c.rest),
                   !.log = Append(c.log, Slept(PollDelayMs))]
    ELSE IF ~report.uri
    THEN [c EXCEPT !.pc = "rejected", !.operation = report, !.rest = Tail(c.rest),
                   !.message = MsgFalhaVideo]
    ELSE [c EXCEPT !.pc = "fetch", !.operation = report, !.rest = Tail(c.rest)]

\* generateTextVideo from the settling of generateVideos or getVideosOperation
\* to its next await: the call throws, or operation is assigned, the while
\* condition is tested and either sleep(5000) is awaited or the loop is left
\* for the uri test and the fetch
AfterReport(c, report) ==
    IF report.kind = "throw"
    THEN [c EXCEPT !.pc = "rejected", !.rest = Tail(c.rest)]
    ELSE IF ~report.done
    THEN [c EXCEPT !.pc = "sleep", !.operation = report, !.rest = Tail(c.rest),
                   !.log = Append(c.log, Slept(PollDelayMs))]
    ELSE IF ~report.uri
    THEN [c EXCEPT !.pc = "rejected", !.operation = report, !.rest = Tail(c.rest),
                   !.message = MsgFalhaVideo]
    ELSE [c EXCEPT !.pc = "fetch", !.operation = report, !.rest = Tail(c.rest)]

\* generateVideos or getVideosOperation settles
OperationReturn ==
    /\ client.fn = "video"
    /\ client.pc \in {"generateVideos", "getVideosOperation"}
    /\ client' = AfterReport(client, Head(client.rest))
    /\ UNCHANGED <<App, inputText, inputStyle, isSuggestingStyle>>

\* sleep(5000) resolves: getVideosOperation is called
SleepReturn ==
    /\ client.fn = "video"
    /\ client.pc = "sleep"
    /\ client' = [client EXCEPT !.pc = "getVideosOperation",
                                !.log = Append(client.log, Checked)]
    /\ UNCHANGED <<App, inputText, inputStyle, isSuggestingStyle>>

\* fetch(uri) and res.blob() settle
FetchReturn ==
    /\ client.fn = "video"
    /\ client.pc = "fetch"
    /\ client' = [client EXCEPT !.pc = IF client.fetched THEN "resolved" ELSE "rejected"]
    /\ UNCHANGED <<App, inputText, inputStyle, isSuggestingStyle>>

\* generateAdCaption is called (style and link only enter the prompt):
\* getAI() throws, or generateContent is awaited
CaptionCall(description) ==
    /\ client.fn = "none"
    /\ \/ client' = [fn |-> "caption", pc |-> "rejected", description |-> description,
                     resp |-> [kind |-> "throw", len |-> 0], result |-> Undefined]
       \/ client' = [fn |-> "caption", pc |-> "generateContent",
                     description |-> description,
                     resp |-> [kind |-> "throw", len |-> 0], result |-> Undefined]
    /\ UNCHANGED <<App, inputText, inputStyle, isSuggestingStyle>>

\* generateContent settles: the rest of the try block, or the catch
CaptionContentReturn ==
    /\ client.fn = "caption"
    /\ client.pc = "generateContent"
    /\ \E resp \in CaptionResponses, random \in Randoms :
          client' = [client EXCEPT !.pc = "resolved", !.resp = resp,
                        !.result = generateAdCaption(client.description, resp, random)]
    /\ UNCHANGED <<App, inputText, inputStyle, isSuggestingStyle>>

\* generateStyleSuggestion after getAI(): the try block and its catch
generateStyleSuggestion(resp) ==
    IF resp.kind = "throw" THEN DefaultStyle
    ELSE IF resp.kind = "undefined" THEN <<>>
    ELSE trim(resp.text)

\* the Suggest button's onClick up to its await: generateStyleSuggestion is
\* called, where getAI() throws or generateContent is awaited
SuggestClick ==
    /\ FormRendered
    /\ trim(inputText) /= <<>> /\ ~isSuggestingStyle    \* the button is not disabled
    /\ client.fn = "none"
    /\ inputText /= <<>>
    /\ isSuggestingStyle' = TRUE
    /\ \/ client' = [fn |-> "style", pc |-> "rejected",
                     resp |-> [kind |-> "throw", text |-> <<>>], result |-> <<>>]
       \/ client' = [fn |-> "style", pc |-> "generateContent",
                     resp |-> [kind |-> "throw", text |-> <<>>], result |-> <<>>]
    /\ UNCHANGED <<App, inputText, inputStyle>>

\* generateContent settles in generateStyleSuggestion
StyleContentReturn ==
    /\ client.fn = "style"
    /\ client.pc = "generateContent"
    /\ \E resp \in StyleResponses :
          client' = [client EXCEPT !.pc = "resolved", !.resp = resp,
                                   !.result = generateStyleSuggestion(resp)]
    /\ UNCHANGED <<App, inputText, inputStyle, isSuggestingStyle>>

\* the onClick handler after its await: the promise resolved and the rest of
\* the handler runs, or it rejected and the handler ends there
SuggestResume ==
    /\ client.fn = "style"
    /\ client.pc \in {"resolved", "rejected"}
    /\ IF client.pc = "resolved"
       THEN inputStyle' = client.result /\ isSuggestingStyle' = FALSE
       ELSE UNCHANGED <<inputStyle, isSuggestingStyle>>
    /\ client' = NoCall
    /\ UNCHANGED <<App, inputText>>

\* the caller takes the outcome of a settled call
Settled ==
    /\ client.fn \in {"video", "caption"}
    /\ client.pc \in {"resolved", "rejected"}
    /\ client' = NoCall
    /\ UNCHANGED <<App, inputText, inputStyle, isSuggestingStyle>>

\* the form is shown to a user with a profile and a selected key
ServiceInit ==
    /\ state = IDLE
    /\ viewMode = "create"
    /\ showKeyDialog = FALSE
    /\ storage \in {JSONstringify(profile) : profile \in Profiles}
    /\ userProfile = LoadProfile(storage)
    /\ inputText = <<>>
    /\ inputStyle = <<>>
    /\ imageSrc = NULL
    /\ videoSrc = NULL
    /\ adCaption = NoCaption
    /\ statusMessage = ""
    /\ keySelected = TRUE
    /\ ctaPending = FALSE
    /\ selectPending = FALSE
    /\ procs = [p \in Slots |-> FreeProc]
    /\ event = "other"
    /\ isSuggestingStyle = FALSE
    /\ client = NoCall

ServiceNext ==
    \/ \E script \in VideoReports, fetched \in BOOLEAN : VideoCall(script, fetched)
    \/ OperationReturn
    \/ SleepReturn
    \/ FetchReturn
    \/ \E description \in Descriptions : CaptionCall(description)
    \/ CaptionContentReturn
    \/ \E t \in TextValues : SetInputText(t)
    \/ \E t \in StyleValues : SetInputStyle(t)
    \/ SuggestClick
    \/ StyleContentReturn
    \/ SuggestResume
    \/ Settled

ServiceSpec == ServiceInit /\ [][ServiceNext]_vars

\* =====================================================================
\* ProfileSpec: the profile form, the stored item and the page loaded again
\* =====================================================================
\* The page is loaded again: App is mounted anew, every hook starts from its
\* initial value and the effect reads the stored item.  Handlers of the page
\* before it never resume.
Mount ==
    /\ state' = IDLE
    /\ viewMode' = "gallery"
    /\ showKeyDialog' = FALSE
    /\ userProfile' = LoadProfile(storage)
    /\ inputText' = <<>>
    /\ inputStyle' = <<>>
    /\ imageSrc' = NULL
    /\ videoSrc' = NULL
    /\ adCaption' = NoCaption
    /\ statusMessage' = ""
    /\ ctaPending' = FALSE
    /\ selectPending' = FALSE
    /\ procs' = [p \in Slots |-> FreeProc]
    /\ event' = "mount"
    /\ isSuggestingStyle' = FALSE
    /\ client' = NoCall
    /\ UNCHANGED <<storage, keySelected>>

ProfileNext ==
    \/ MainCta
    \/ MainCtaReturn
    \/ \E profile \in FormProfiles : saveProfile(profile)
    \/ Navigate
    \/ DialogClose
    \/ DialogSelect
    \/ DialogSelectReturn
    \/ Mount

ProfileSpec == Init /\ [][ProfileNext]_vars

\* =====================================================================
\* Properties
\* =====================================================================
\* steps of invocation p, read off its pc
Aborts(p) == procs[p].pc = "keyCheck" /\ procs'[p].pc = "returned"
ImageReady(p) == procs[p].pc = "image" /\ procs'[p].pc = "video"
ImageFails(p) == procs[p].pc = "image" /\ procs'[p].pc = "returned"
NoUriFails(p) ==
    /\ procs[p].pc = "video"
    /\ procs'[p].pc = "returned"
    /\ statusMessage' = MsgFalhaVideo
Completes(p) == procs[p].pc = "video" /\ procs'[p].pc = "returned" /\ state' = PLAYING

\* C1: at most one generation sequence (an invocation of startProcess past
\* its key check and not yet settled) is in flight in any reachable state.
C1_OneSequenceInFlight == Cardinality({p \in Slots : InFlight(procs[p])}) <= 1

\* C2: a submit of the form while ViewState is GeneratingImage,
\* GeneratingVideo, Playing or Error changes neither ViewState nor image,
\* video, caption, and starts no invocation (hence no generation call).
C2_SubmitWhileNotIdleIsNoop ==
    [][(event' = "submit" /\ state /= IDLE)
        => UNCHANGED <<state, imageSrc, videoSrc, adCaption, statusMessage, procs>>]_vars

\* a submit has just been fired at the form while ViewState is Error (the form
\* is rendered, the text is not empty) and it was ignored
C2_Witness ==
    /\ event = "submit"
    /\ state = ERROR
    /\ trim(inputText) /= <<>>
    /\ \A p \in Slots : procs[p].pc /= "keyCheck"

AllowedTransitions ==
    {<<IDLE, GENERATING_IMAGE>>, <<GENERATING_IMAGE, GENERATING_VIDEO>>,
     <<GENERATING_VIDEO, PLAYING>>, <<GENERATING_IMAGE, ERROR>>,
     <<GENERATING_VIDEO, ERROR>>, <<PLAYING, IDLE>>, <<ERROR, GENERATING_IMAGE>>}

\* C3: every change of ViewState is one of the seven transitions of the
\* state machine (AllowedTransitions).
C3_OnlyAllowedTransitions ==
    [][state' /= state => <<state, state'>> \in AllowedTransitions]_vars

\* C4: a run of startProcess whose three stages succeed observes exactly
\* Idle, GeneratingImage, GeneratingVideo, Playing; when its image arrives
\* its caption is already shown and no image is; when its video arrives its
\* image is shown and no video is.
C4_SuccessfulRunSequence ==
    [][\A p \in Slots :
        /\ ImageReady(p) =>
              adCaption /= NoCaption /\ adCaption.req = p /\ imageSrc = NULL
        /\ Completes(p) =>
              /\ Append(procs[p].seen, state') = ExpectedRun
              /\ imageSrc = p
              /\ videoSrc = NULL]_vars

\* C5: in every reachable state, a video is set only if an image is set.
C5_VideoOnlyAfterImage == videoSrc /= NULL => imageSrc /= NULL

\* C6: when generateTextImage fails for a request, ViewState becomes Error,
\* the video field is unset, and the request has returned (it never reaches
\* the call of generateTextVideo).
C6_ImageFailureHalts ==
    [][\A p \in Slots :
        /\ ImageFails(p) => state' = ERROR /\ videoSrc' = NULL
        /\ procs[p].pc = "returned" => procs'[p].pc = "returned"]_vars

\* C7: when the video operation is done but has no result uri, ViewState
\* becomes Error, the video field is unset and the image field still holds
\* the image set earlier by the same request.
C7_NoUriKeepsImage ==
    [][\A p \in Slots :
        NoUriFails(p) => state' = ERROR /\ videoSrc' = NULL /\ imageSrc' = p]_vars

\* C8: the caption stage never ends a request (generateAdCaption always
\* returns a caption), and whenever ViewState becomes Error the caption
\* field is populated.
C8_CaptionStageNeverFails ==
    [][/\ \A p \in Slots : procs[p].pc = "caption" => procs'[p].pc \in {"caption", "image"}
       /\ (state' = ERROR /\ state /= ERROR) => adCaption /= NoCaption]_vars

\* C9: when the key check of a submit answers that no key is selected, the
\* invocation opens the key dialog and returns: ViewState was and stays
\* Idle, image, video and caption are unchanged, and no invocation enters
\* the generation chain.
C9_MissingKeyAborts ==
    [][\A p \in Slots :
        (procs[p].pc = "keyCheck" /\ procs'[p].pc /= "keyCheck" /\ ~keySelected)
            => /\ Aborts(p)
               /\ showKeyDialog'
               /\ state = IDLE /\ state' = IDLE
               /\ UNCHANGED <<imageSrc, videoSrc, adCaption>>
               /\ \A q \in Slots : InFlight(procs'[q]) => InFlight(procs[q])]_vars

\* a submit was made with no key selected: its invocation has returned, the
\* dialog is open and nothing was generated
C9_Witness ==
    /\ ~keySelected
    /\ showKeyDialog
    /\ state = IDLE
    /\ \E p \in Slots : procs[p].pc = "returned"

\* C10: ViewState leaves Error only towards GeneratingImage, and a submit of
\* the form in Error with non-empty text and a key selected is accepted (it
\* starts an invocation of startProcess, which then enters GeneratingImage).
C10_ErrorRecoverableBySubmit ==
    [][/\ (state = ERROR /\ state' /= ERROR) => state' = GENERATING_IMAGE
       /\ (event' = "submit" /\ state = ERROR /\ trim(inputText) /= <<>> /\ keySelected)
            => \E p \in Slots : procs[p].pc = "none" /\ procs'[p].pc = "keyCheck"]_vars

\* the call of generateTextVideo has left its while loop: it awaits the
\* fetch, has resolved, or was rejected by the uri test
LeftLoop(c) ==
    \/ c.pc \in {"fetch", "resolved"}
    \/ c.pc = "rejected" /\ c.message = MsgFalhaVideo

\* C11: in a call of generateTextVideo whose handle is pending after
\* generateVideos and whose status is then reported not done at N checks and
\* done at the next (the script holds N + 1 reports that are not done, then
\* one that is), every getVideosOperation comes right after a sleep of
\* PollDelayMs; the loop is left only on a report that is done, after exactly
\* N + 1 rounds of sleep and check (as many as pollLoop counts); and the call
\* resolves only on the last report, which is done and has a uri.
C11_PollLoop ==
    client.fn = "video" =>
        LET pending == Len(client.script) - 1
            last == client.script[Len(client.script)]
        IN  /\ \A i \in DOMAIN client.log :
                  client.log[i] = IF i % 2 = 1 THEN Slept(PollDelayMs) ELSE Checked
            /\ LeftLoop(client) =>
                  /\ client.operation = last
                  /\ client.operation.done
                  /\ Len(client.log) = 2 * pending
                  /\ pollLoop(Head(client.script), Tail(client.script), 0).polls = pending
            /\ client.pc = "resolved" => last.done /\ last.uri /\ client.fetched

\* a call has resolved after two checks: the first answered not done (N = 1)
C11_Witness ==
    /\ client.fn = "video"
    /\ client.pc = "resolved"
    /\ Len(client.script) = 3
    /\ client.log = <<Slept(PollDelayMs), Checked, Slept(PollDelayMs), Checked>>

\* C12: every string generateAdCaption returns for a non-empty product text
\* has between MinCaptionLen (5) and MaxCaptionLen (160) characters, on the
\* model's answer and on the fallback alike.
C12_CaptionLengthBounds ==
    (client.fn = "caption" /\ client.pc = "resolved" /\ client.description /= <<>>)
        => /\ client.result.len >= MinCaptionLen
           /\ client.result.len <= MaxCaptionLen

\* generateAdCaption took its fallback: the call failed, the response was
\* empty, or it was shorter than 5 characters
TookFallback(c) ==
    c.resp.kind \in {"throw", "undefined"} \/ c.resp.len < MinCaptionLen

\* C13: on the fallback path generateAdCaption returns, whatever the random
\* draw, one of the four frases (never undefined, never the model's text),
\* which holds the product text verbatim.
C13_FallbackIsOneOfFourFrases ==
    (client.fn = "caption" /\ client.pc = "resolved" /\ TookFallback(client))
        => /\ client.result /= Undefined
           /\ client.result.src \in 1 .. NumFrases
           /\ client.result.description = client.description
           /\ client.result.len = FraseLen[client.result.src] + Len(client.description)

\* the model's answer was too short and the draw selected the last frase
C13_Witness ==
    /\ client.fn = "caption"
    /\ client.pc = "resolved"
    /\ client.resp = [kind |-> "text", len |-> 4]
    /\ client.result.src = NumFrases
    /\ client.result.description = client.description

\* C14: a call of generateStyleSuggestion never rejects; when the model call
\* failed it returns DefaultStyle, which the Suggest handler puts into the
\* style input; and the handler always ends with isSuggestingStyle cleared.
C14_SuggestNeverRaises ==
    [][(client.fn = "style" /\ client'.fn = "none")
        => /\ client.pc = "resolved"
           /\ ~isSuggestingStyle'
           /\ client.resp.kind = "throw" => inputStyle' = DefaultStyle]_vars

\* C15: whenever a profile is in memory it is, field for field, what the
\* startup load reads from the stored item (so after every save the profile
\* in memory equals the persisted one), and loading the page again after a
\* save yields the profile that was in memory before.
C15_ProfileRoundTrip ==
    [][/\ userProfile' /= NoProfile =>
            /\ LoadProfile(storage') /= NoProfile
            /\ \A k \in DOMAIN KeyChars :
                  LoadProfile(storage')[1][k] = userProfile'[1][k]
       /\ (event' = "mount" /\ storage /= NoItem) =>
            /\ userProfile /= NoProfile
            /\ userProfile' = userProfile]_vars

\* the page was loaded again with a profile whose fields hold quotes,
\* backslashes, a comma and a brace
C15_Witness ==
    /\ event = "mount"
    /\ userProfile /= NoProfile
    /\ userProfile[1].name = <<"a", "\\">>
    /\ userProfile[1].phone = <<"\\", "\"">>
    /\ userProfile[1].instagram = <<"a", "\"", ",">>
    /\ userProfile[1].twitter = <<"}">>
    /\ userProfile[1].tiktok = <<"\\", "n">>

\* C17: in every reachable state with ViewState = Playing, image, video and
\* caption are all set and come from one and the same request.
C17_PlayingResultCoherent ==
    state = PLAYING =>
        /\ imageSrc /= NULL
        /\ videoSrc /= NULL
        /\ adCaption /= NoCaption
        /\ imageSrc = videoSrc
        /\ adCaption.req = videoSrc

\* C16: when every awaited call settles, each invocation that entered the
\* generation chain returns, at that moment ViewState is Playing or Error,
\* and ViewState never stays GeneratingImage or GeneratingVideo forever.
C16_StartedRequestSettles ==
    /\ \A p \in Slots : InFlight(procs[p]) ~> (procs[p].pc = "returned")
    /\ (state \in {GENERATING_IMAGE, GENERATING_VIDEO}) ~> (state \in {PLAYING, ERROR})
    /\ [][\A p \in Slots :
            (InFlight(procs[p]) /\ procs'[p].pc = "returned")
                => state' \in {PLAYING, ERROR}]_vars

\* a request went through the chain and its video is playing
C16_Witness ==
    /\ state = PLAYING
    /\ \E p \in Slots : procs[p].pc = "returned" /\ videoSrc = p /\ imageSrc = p

====
